---- MODULE Spec2Model ----
(***************************************************************************)
(* Model of gopenpgp's session keys (crypto/sessionkey.go: the algorithm   *)
(* registry, checkSize, GenerateSessionKeyAlgo, newSessionKeyFromEncrypted,*)
(* getAlgo, Encrypt, Decrypt, checkReader,                                 *)
(* decryptWithSessionKeyAndContext) and of the signature verification      *)
(* handle (verifyHandle, verifyingReader, verifyingDetachedReader,         *)
(* VerifyDetached, VerifyInline, VerifyCleartext).                         *)
(***************************************************************************)
EXTENDS Naturals, Integers, Sequences, FiniteSets, TLC

\* ------------------------------------------------------------------ bounds
\* Longest decrypted body, in bytes.
MaxBody == 3
\* Largest buffer a consumer hands to Read.
MaxBuf == 2
\* Most Read calls made on one checkReader.
MaxReads == 5
\* Longest data stream handed to a verification, in bytes.
MaxData == 1
\* Most signature candidates one message carries.
MaxCandidates == 2
\* Most readers built from one verifyHandle.
MaxConstructions == 2
\* Longest session key, in bytes.
MaxKeyLen == 33
\* Largest cipher code a key-exchange packet carries.
MaxCipher == 10

\* ------------------------------------------------------------ error values
\* An error is a sequence of strings: <<>> is nil, a wrapped error is the
\* message followed by its cause (errors.Wrap).
NilErr == <<>>
IoEOF == <<"io.EOF">>
StructuralParsingError == <<"StructuralError: parsing error">>
\* What the decrypted handle's Close reports when the integrity tag is wrong.
MdcError == <<"integrity check failed">>
\* The non-EOF errors the inner body reader can end with.
InnerErrors == {<<"io.ErrUnexpectedEOF">>, <<"read error">>}
Wrap(err, msg) == <<msg>> \o err
Cause(err) == IF err = NilErr THEN NilErr ELSE <<err[Len(err)]>>

Min(a, b) == IF a < b THEN a ELSE b

VARIABLES
    \* ---- checkReader and the two readers it wraps
    stream,        \* bytes the inner body reader delivers before it ends
    bodyPos,       \* bytes of stream already delivered
    bodyEnd,       \* what the inner reader returns once stream is used up
    bodyEnded,     \* the inner reader has returned bodyEnd (it then repeats it)
    closeResult,   \* what decrypted.Close() returns
    closeCount,    \* calls of decrypted.Close() so far
    reads,         \* calls of checkReader.Read so far
    lastRead,      \* the last checkReader.Read: inner result and own result
    eofReturned,   \* some checkReader.Read has returned io.EOF
    \* ---- decryptWithSessionKeyAndContext
    consumer,      \* who reads the checkReader: "stream" (a caller) or "message"
    pc,            \* "idle", "reading" (inside messageBuf.ReadFrom), "done"
    verifyKeyRing, \* "nil", "withSigner", "withoutSigner"
    verifyTime,    \* 0 disables the time check
    sig,           \* the embedded signature of the message
    messageBuf,    \* bytes collected by messageBuf.ReadFrom
    sigSteps,      \* runs of the embedded-signature policy
    result,        \* what decryptWithSessionKeyAndContext returned
    \* ---- verifyHandle
    vhKeyRing,     \* vh.VerifyKeyRing: "withSigner" or "withoutSigner"
    vhContext,     \* vh.VerificationContext is set
    vhDisableTimeCheck, \* vh.DisableVerifyTimeCheck
    now,           \* what vh.clock() returns when it is invoked: 0 before
                   \* the instant the signature was created, 1 from it on
    clockCalls,    \* invocations of vh.clock so far
    constructions, \* calls of verifyingReader and verifyingDetachedReader so far
    message,       \* the message and data the caller verifies
    reader,        \* the VerifyDataReader the last VerifyingReader call returned
    builtAt,       \* the clock's value when that reader was built
    lastVerify,    \* the caller's last VerifySignature on that reader
    call,          \* the last VerifyDetached / VerifyInline / VerifyCleartext call
    vrCall,        \* the last VerifyingReader call: its inputs, the candidate
                   \* the engine resolves, and what was built
    \* ---- SessionKey
    ek,            \* a decrypted key-exchange packet (packet.EncryptedKey)
    algo,          \* an algorithm identifier a caller passes
    sk,            \* the SessionKey in use, or the one the last call returned
    skErr,         \* the error the last session-key call returned
    skOp,          \* the last session-key call
    randomBytes,   \* bytes the last call drew from the random source
    algoOut,       \* what the last getAlgo returned
    plain,         \* the PlainMessage data handed to Encrypt
    variant,       \* which Encrypt function is used
    dataPacket     \* what Encrypt returned

readerVars == <<stream, bodyPos, bodyEnd, bodyEnded, closeResult, closeCount,
                reads, lastRead, eofReturned>>

decryptVars == <<consumer, pc, verifyKeyRing, verifyTime, sig, messageBuf,
                 sigSteps, result>>

verifyVars == <<vhKeyRing, vhContext, vhDisableTimeCheck, now, clockCalls,
                constructions, message, reader, builtAt, lastVerify, call,
                vrCall>>

sessionKeyVars == <<ek, algo, sk, skErr, skOp, randomBytes, algoOut, plain,
                    variant, dataPacket>>

vars == <<readerVars, decryptVars, verifyVars, sessionKeyVars>>

\* ------------------------------------------------------------ checkReader

NoRead == [bufLen |-> 0, innerN |-> 0, innerErr |-> <<"none">>,
           n |-> 0, err |-> <<"none">>, closed |-> FALSE]

\* The body delivering bytes 1..len in order.
Streams == {[i \in 1..len |-> i] : len \in 0..MaxBody}

\* cr.body.Read(buf): the (n, err) pairs the inner reader may return.
BodyRead(bufLen) ==
    LET left == Len(stream) - bodyPos IN
    IF bodyEnded \/ left = 0
    THEN {[n |-> 0, err |-> bodyEnd]}
    ELSE {[n |-> k, err |-> e] :
            k \in 1..Min(bufLen, left),
            e \in {NilErr, bodyEnd}} \
         {[n |-> k, err |-> bodyEnd] : k \in 1..(left - 1)}

CheckReaderReadSwallowsMdc(n, sensitiveParsingError, mdcErr) ==
    IF sensitiveParsingError = IoEOF
    THEN [n |-> n, err |-> IoEOF, closed |-> TRUE]
    ELSE IF sensitiveParsingError # NilErr
    THEN [n |-> n, err |-> StructuralParsingError, closed |-> FALSE]
    ELSE [n |-> n, err |-> NilErr, closed |-> FALSE]

CheckReaderReadPassesError(n, sensitiveParsingError, mdcErr) ==
    IF sensitiveParsingError = IoEOF
    THEN IF mdcErr # NilErr
         THEN [n |-> n, err |-> mdcErr, closed |-> TRUE]
         ELSE [n |-> n, err |-> IoEOF, closed |-> TRUE]
    ELSE [n |-> n, err |-> sensitiveParsingError, closed |-> FALSE]

CheckReaderReadClosesOnError(n, sensitiveParsingError, mdcErr) ==
    IF sensitiveParsingError # NilErr
    THEN IF mdcErr # NilErr
         THEN [n |-> n, err |-> mdcErr, closed |-> TRUE]
         ELSE [n |-> n, err |-> IoEOF, closed |-> TRUE]
    ELSE [n |-> n, err |-> NilErr, closed |-> FALSE]

CheckReaderReadMdcAsParsing(n, sensitiveParsingError, mdcErr) ==
    IF sensitiveParsingError = IoEOF
    THEN IF mdcErr # NilErr
         THEN [n |-> n, err |-> StructuralParsingError, closed |-> TRUE]
         ELSE [n |-> n, err |-> IoEOF, closed |-> TRUE]
    ELSE IF sensitiveParsingError # NilErr
    THEN [n |-> n, err |-> StructuralParsingError, closed |-> FALSE]
    ELSE [n |-> n, err |-> NilErr, closed |-> FALSE]

\* checkReader.Read, given what cr.body.Read returned and what
\* cr.decrypted.Close() returns if it is called: the (n, err) returned and
\* whether Close was called.
CheckReaderRead(n, sensitiveParsingError, mdcErr) ==
    IF sensitiveParsingError = IoEOF
    THEN IF mdcErr # NilErr
         THEN [n |-> n, err |-> mdcErr, closed |-> TRUE]
         ELSE [n |-> n, err |-> IoEOF, closed |-> TRUE]
    ELSE IF sensitiveParsingError # NilErr
    THEN [n |-> n, err |-> StructuralParsingError, closed |-> FALSE]
    ELSE [n |-> n, err |-> NilErr, closed |-> FALSE]

\* One call of checkReader.Read with a buffer of bufLen bytes in which the
\* inner reader returns `inner`: the state of the two wrapped readers after it.
ReadStep(bufLen, inner) ==
    LET r == CheckReaderRead(inner.n, inner.err, closeResult) IN
    /\ reads' = reads + 1
    /\ bodyPos' = bodyPos + inner.n
    /\ bodyEnded' = (bodyEnded \/ inner.err # NilErr)
    /\ closeCount' = closeCount + (IF r.closed THEN 1 ELSE 0)
    /\ eofReturned' = (eofReturned \/ r.err = IoEOF)
    /\ lastRead' = [bufLen |-> bufLen, innerN |-> inner.n, innerErr |-> inner.err,
                    n |-> r.n, err |-> r.err, closed |-> r.closed]
    /\ UNCHANGED <<stream, bodyEnd, closeResult>>

\* A caller of the streaming interface reads the checkReader itself, as often
\* as it likes, also after an error or end-of-stream.
Read ==
    /\ consumer = "stream"
    /\ reads < MaxReads
    /\ \E bufLen \in 1..MaxBuf : \E inner \in BodyRead(bufLen) :
          ReadStep(bufLen, inner)
    /\ UNCHANGED <<decryptVars, verifyVars, sessionKeyVars>>

\* ------------------------------------------- decryptWithSessionKeyAndContext

NilMessage == [isNil |-> TRUE, Data |-> <<>>]
PlainMessage(data) == [isNil |-> FALSE, Data |-> data]
NoResult == [returned |-> FALSE, msg |-> NilMessage, err |-> NilErr]
Returned(msg, err) == [returned |-> TRUE, msg |-> msg, err |-> err]

SignatureError(status) == <<"SignatureVerificationError", status>>
DecryptStreamError == <<"gopenpgp: unable to decode symmetric packet">>

\* processSignatureExpiration(md, verifyTime): whether the signature counts as
\* expired; a verifyTime of 0 disables the time check.
ProcessSignatureExpiration(s, vTime) == s = "expired" /\ vTime # 0

\* verifyDetailsSignature(md, verifyKeyRing, verificationContext): nil for a
\* verified signature, otherwise the signature outcome as an error.
VerifyDetailsSignature(s, expired, keyRing) ==
    IF s = "unsigned" THEN SignatureError("NotSigned")
    ELSE IF keyRing = "withoutSigner" THEN SignatureError("NoVerifier")
    ELSE IF expired THEN SignatureError("Expired")
    ELSE IF s = "bad" THEN SignatureError("Failed")
    ELSE NilErr

\* bytes.Buffer.ReadFrom ends with a nil error on io.EOF and with the
\* reader's error otherwise.
ReadFromError(readErr) == IF readErr = IoEOF THEN NilErr ELSE readErr

DecryptFinishDropsPlaintext(err, data, keyRing, vTime, s) ==
    IF err # NilErr
    THEN [ret |-> Returned(NilMessage,
                           Wrap(err, "gopenpgp: error in reading message body")),
          sigRan |-> FALSE]
    ELSE LET sigErr == IF keyRing # "nil"
                       THEN VerifyDetailsSignature(
                                s, ProcessSignatureExpiration(s, vTime), keyRing)
                       ELSE err
         IN [ret |-> IF sigErr # NilErr THEN Returned(NilMessage, sigErr)
                     ELSE Returned(PlainMessage(data), sigErr),
             sigRan |-> keyRing # "nil"]

DecryptFinishKeepsPartial(err, data, keyRing, vTime, s) ==
    LET sigErr == IF keyRing # "nil"
                  THEN VerifyDetailsSignature(
                           s, ProcessSignatureExpiration(s, vTime), keyRing)
                  ELSE err
    IN [ret |-> Returned(PlainMessage(data), sigErr), sigRan |-> keyRing # "nil"]

\* decryptWithSessionKeyAndContext from the return of messageBuf.ReadFrom on:
\* err is ReadFrom's error and data what messageBuf holds.
DecryptFinish(err, data, keyRing, vTime, s) ==
    IF err # NilErr
    THEN [ret |-> Returned(NilMessage,
                           Wrap(err, "gopenpgp: error in reading message body")),
          sigRan |-> FALSE]
    ELSE LET sigErr == IF keyRing # "nil"
                       THEN VerifyDetailsSignature(
                                s, ProcessSignatureExpiration(s, vTime), keyRing)
                       ELSE err
         IN [ret |-> Returned(PlainMessage(data), sigErr),
             sigRan |-> keyRing # "nil"]

\* decryptStreamWithSessionKey fails: the call returns its error at once.
DecryptStreamFails ==
    /\ consumer = "message"
    /\ pc = "idle"
    /\ pc' = "done"
    /\ result' = Returned(NilMessage, DecryptStreamError)
    /\ UNCHANGED <<readerVars, consumer, verifyKeyRing, verifyTime, sig,
                   messageBuf, sigSteps, verifyVars, sessionKeyVars>>

\* decryptStreamWithSessionKey succeeds: md.UnverifiedBody is the checkReader
\* and messageBuf.ReadFrom starts on it.
DecryptStreamOpens ==
    /\ consumer = "message"
    /\ pc = "idle"
    /\ pc' = "reading"
    /\ messageBuf' = <<>>
    /\ UNCHANGED <<readerVars, consumer, verifyKeyRing, verifyTime, sig,
                   sigSteps, result, verifyVars, sessionKeyVars>>

\* One iteration of messageBuf.ReadFrom(md.UnverifiedBody): a Read of the
\* checkReader whose n bytes are appended; a non-nil error ends the loop and
\* the rest of decryptWithSessionKeyAndContext runs to its return.
ReadFromStep ==
    /\ consumer = "message"
    /\ pc = "reading"
    /\ reads < MaxReads
    /\ \E bufLen \in 1..MaxBuf : \E inner \in BodyRead(bufLen) :
         /\ ReadStep(bufLen, inner)
         /\ LET r == lastRead'
                buf == messageBuf \o SubSeq(stream, bodyPos + 1, bodyPos + r.n)
                fin == DecryptFinish(ReadFromError(r.err), buf,
                                     verifyKeyRing, verifyTime, sig)
            IN /\ messageBuf' = buf
               /\ IF r.err = NilErr
                  THEN UNCHANGED <<pc, result, sigSteps>>
                  ELSE /\ pc' = "done"
                       /\ result' = fin.ret
                       /\ sigSteps' = sigSteps + (IF fin.sigRan THEN 1 ELSE 0)
    /\ UNCHANGED <<consumer, verifyKeyRing, verifyTime, sig, verifyVars, sessionKeyVars>>

\* ----------------------------------------------------------- verifyHandle

SigTypes == {"binary", "text"}
\* A signature is good, cryptographically bad, good but without the context
\* notation, or good and created at instant 1 (not yet valid before it).
SigKinds == {"good", "bad", "noNotation", "validFrom1"}
CandidateLists == UNION {[1..k -> SigTypes] : k \in 0..MaxCandidates}
ReadError == <<"read error">>
ArmorError == <<"armor: invalid armor">>
EngineError == <<"openpgp: malformed message">>

\* What a caller verifies: whether the packets parse, the data (len bytes,
\* then end), and the signature candidates with the kind of the signature
\* they carry.
Messages ==
    {m \in [parses : BOOLEAN, len : 0..MaxData, end : {IoEOF, ReadError},
            candidates : CandidateLists, kind : SigKinds] :
        /\ m.candidates = <<>> => m.kind = "good"
        /\ ~m.parses => m.candidates = <<>> /\ m.len = 0 /\ m.end = IoEOF}

\* How the bytes handed in are framed.
Forms == {"binary", "armored", "malformedArmor"}

\* The message m in framing form, as the handle receives it.
Framed(m, form) ==
    IF form = "malformedArmor"
    THEN [form |-> form, parses |-> FALSE, len |-> 0, end |-> IoEOF,
          candidates |-> <<>>, kind |-> "good"]
    ELSE [form |-> form, parses |-> m.parses, len |-> m.len, end |-> m.end,
          candidates |-> m.candidates, kind |-> m.kind]

Encodings == {"Armor", "Bytes", "Auto"}

\* The handle's fields, as one value.
Handle == [keyRing |-> vhKeyRing, context |-> vhContext,
           disableTimeCheck |-> vhDisableTimeCheck]

NoReader == [open |-> FALSE, path |-> "none", verifyTime |-> 0,
             disableTimeCheck |-> FALSE, readAll |-> FALSE, context |-> FALSE,
             keyRing |-> "none", sanitized |-> FALSE, left |-> 0,
             end |-> IoEOF, ended |-> FALSE, candidates |-> <<>>,
             kind |-> "good"]

NilData == [present |-> FALSE, len |-> 0, end |-> IoEOF]
DataReader(len, end) == [present |-> TRUE, len |-> len, end |-> end]

\* unarmorInput(encoding, input): whether the input is to be unarmored.
UnarmorInput(encoding, msg) ==
    encoding = "Armor" \/ (encoding = "Auto" /\ msg.form # "binary")

\* What the engine is handed after the armor step: armored text that was not
\* unarmored is no packet sequence.
Unarmored(msg, armored) ==
    IF armored \/ msg.form = "binary" THEN msg
    ELSE [msg EXCEPT !.parses = FALSE, !.candidates = <<>>, !.kind = "good",
                     !.len = 0, !.end = IoEOF]

VerifyingReaderInlineReadAll(vh, t, signatureMessage) ==
    IF ~signatureMessage.parses
    THEN [err |-> Wrap(EngineError,
                       "gopenpgp: initialize signature reader failed"),
          reader |-> NoReader, clockCalls |-> 1]
    ELSE [err |-> NilErr,
          reader |-> [open |-> TRUE, path |-> "inline", verifyTime |-> t,
                      disableTimeCheck |-> vh.disableTimeCheck,
                      readAll |-> TRUE, context |-> vh.context,
                      keyRing |-> vh.keyRing, sanitized |-> FALSE,
                      left |-> signatureMessage.len,
                      end |-> signatureMessage.end, ended |-> FALSE,
                      candidates |-> signatureMessage.candidates,
                      kind |-> signatureMessage.kind],
          clockCalls |-> 1]

\* verifyHandle.verifyingReader with the clock returning t: the error, the
\* VerifyDataReader, and how often the clock was invoked.
VerifyingReaderInline(vh, t, signatureMessage) ==
    IF ~signatureMessage.parses
    THEN [err |-> Wrap(EngineError,
                       "gopenpgp: initialize signature reader failed"),
          reader |-> NoReader, clockCalls |-> 1]
    ELSE [err |-> NilErr,
          reader |-> [open |-> TRUE, path |-> "inline", verifyTime |-> t,
                      disableTimeCheck |-> vh.disableTimeCheck,
                      readAll |-> FALSE, context |-> vh.context,
                      keyRing |-> vh.keyRing, sanitized |-> FALSE,
                      left |-> signatureMessage.len,
                      end |-> signatureMessage.end, ended |-> FALSE,
                      candidates |-> signatureMessage.candidates,
                      kind |-> signatureMessage.kind],
          clockCalls |-> 1]

VerifyingDetachedReaderCachedTime(data, signature, keyRing, context, disableTimeCheck, t) ==
    IF ~signature.parses
    THEN [err |-> Wrap(EngineError, "gopenpgp: verify signature reader failed"),
          reader |-> NoReader, clockCalls |-> 0]
    ELSE [err |-> NilErr,
          reader |-> [open |-> TRUE, path |-> "detached", verifyTime |-> 0,
                      disableTimeCheck |-> disableTimeCheck,
                      readAll |-> FALSE, context |-> context,
                      keyRing |-> keyRing,
                      sanitized |-> (Len(signature.candidates) > 0
                                     /\ signature.candidates[1] = "text"),
                      left |-> data.len, end |-> data.end, ended |-> FALSE,
                      candidates |-> signature.candidates,
                      kind |-> signature.kind],
          clockCalls |-> 0]

\* verifyingDetachedReader (config nil) with the clock returning t.
VerifyingDetachedReader(data, signature, keyRing, context, disableTimeCheck, t) ==
    IF ~signature.parses
    THEN [err |-> Wrap(EngineError, "gopenpgp: verify signature reader failed"),
          reader |-> NoReader, clockCalls |-> 1]
    ELSE [err |-> NilErr,
          reader |-> [open |-> TRUE, path |-> "detached", verifyTime |-> t,
                      disableTimeCheck |-> disableTimeCheck,
                      readAll |-> FALSE, context |-> context,
                      keyRing |-> keyRing,
                      sanitized |-> (Len(signature.candidates) > 0
                                     /\ signature.candidates[1] = "text"),
                      left |-> data.len, end |-> data.end, ended |-> FALSE,
                      candidates |-> signature.candidates,
                      kind |-> signature.kind],
          clockCalls |-> 1]

\* verifyHandle.verifyingDetachedReader: the handle's fields passed on.
VhVerifyingDetachedReader(vh, t, data, signature) ==
    VerifyingDetachedReader(data, signature, vh.keyRing, vh.context,
                            vh.disableTimeCheck, t)

VerifyingReaderAlwaysInline(vh, t, detachedData, signatureMessage, encoding) ==
    LET armored == UnarmorInput(encoding, signatureMessage) IN
    IF armored /\ signatureMessage.form # "armored"
    THEN [err |-> Wrap(ArmorError, "gopenpgp: unarmor failed"),
          reader |-> NoReader, clockCalls |-> 0, built |-> "none"]
    ELSE LET c == VerifyingReaderInline(vh, t,
                                        Unarmored(signatureMessage, armored))
         IN [err |-> c.err, reader |-> c.reader,
             clockCalls |-> c.clockCalls, built |-> "inline"]

\* verifyHandle.VerifyingReader: the armor step, then one of the two readers.
\* built names the constructor that was called.
VerifyingReader(vh, t, detachedData, signatureMessage, encoding) ==
    LET armored == UnarmorInput(encoding, signatureMessage) IN
    IF armored /\ signatureMessage.form # "armored"
    THEN [err |-> Wrap(ArmorError, "gopenpgp: unarmor failed"),
          reader |-> NoReader, clockCalls |-> 0, built |-> "none"]
    ELSE LET body == Unarmored(signatureMessage, armored) IN
         IF detachedData.present
         THEN LET c == VhVerifyingDetachedReader(vh, t, detachedData, body)
              IN [err |-> c.err, reader |-> c.reader,
                  clockCalls |-> c.clockCalls, built |-> "detached"]
         ELSE LET c == VerifyingReaderInline(vh, t, body)
              IN [err |-> c.err, reader |-> c.reader,
                  clockCalls |-> c.clockCalls, built |-> "inline"]

\* ------------------------------------------------------- VerifyDataReader

\* (VerifyDataReader).Read(buf): the (n, err) pairs it may return.
ReaderReadResults(r, bufLen) ==
    IF r.ended \/ r.left = 0
    THEN {[n |-> 0, err |-> r.end]}
    ELSE {[n |-> k, err |-> e] :
            k \in 1..Min(bufLen, r.left), e \in {NilErr, r.end}} \
         {[n |-> k, err |-> r.end] : k \in 1..(r.left - 1)}

\* The reader after that Read: end-of-stream is remembered in readAll.
ReaderAfterRead(r, out) ==
    [r EXCEPT !.left = @ - out.n,
              !.ended = @ \/ out.err # NilErr,
              !.readAll = @ \/ out.err = IoEOF]

\* The signature outcomes a finished verification can have.
Outcomes == {"Success", "NotSigned", "NoVerifier", "NotYetValid",
             "ContextMismatch", "Failed"}

\* (VerifyDataReader).VerifySignature(): the outcome and the error.
VerifySignature(r) ==
    [err |-> NilErr,
     res |-> IF ~r.readAll THEN "Incomplete"
             ELSE IF r.candidates = <<>> THEN "NotSigned"
             ELSE IF r.keyRing = "withoutSigner" THEN "NoVerifier"
             ELSE IF ~r.disableTimeCheck /\ r.kind = "validFrom1"
                     /\ r.verifyTime < 1 THEN "NotYetValid"
             ELSE IF r.context /\ r.kind = "noNotation" THEN "ContextMismatch"
             ELSE IF r.kind = "bad" THEN "Failed"
             ELSE "Success"]

\* io.Copy(ioutil.Discard, ptReader) and ptReader.ReadAll(): Read until an
\* error; io.EOF ends the loop with a nil error. n counts the bytes read.
RECURSIVE IoCopy(_)
IoCopy(r) ==
    LET out == IF r.left > 0 /\ ~r.ended
               THEN [n |-> Min(r.left, MaxBuf), err |-> NilErr]
               ELSE [n |-> 0, err |-> r.end]
        after == ReaderAfterRead(r, out)
    IN IF out.err = IoEOF THEN [reader |-> after, err |-> NilErr, n |-> 0]
       ELSE IF out.err # NilErr THEN [reader |-> after, err |-> out.err, n |-> 0]
       ELSE LET rest == IoCopy(after) IN [rest EXCEPT !.n = @ + out.n]

\* ------------------------------------- VerifyDetached, VerifyInline, ...

\* What one of the handle's verification functions did: the VerifyResult's
\* outcome ("nil" for a nil result) and the error returned, the calls it made
\* in order, whether the reader had reported end-of-stream when
\* VerifySignature was called, the bytes of data returned, whether it
\* panicked, and the clock invocations and reader constructions it caused.
Outcome(res, err, events, verifyAtEOF, dataLen, clock, built) ==
    [res |-> res, err |-> err, events |-> events, verifyAtEOF |-> verifyAtEOF,
     dataLen |-> dataLen, panicked |-> FALSE, clockCalls |-> clock,
     constructions |-> built]

AtEOF(r) == r.ended /\ r.end = IoEOF
Built(c) == IF c.built = "none" THEN 0 ELSE 1

VerifyDetachedSkipsRead(vh, t, data, signature, encoding) ==
    LET c == VerifyingReader(vh, t, data, signature, encoding) IN
    IF c.err # NilErr
    THEN Outcome("nil", Wrap(c.err, "gopenpgp: verifying signature failed"),
                 <<"VerifyingReader">>, FALSE, 0, c.clockCalls, Built(c))
    ELSE LET v == VerifySignature(c.reader)
         IN Outcome(v.res, v.err, <<"VerifyingReader", "VerifySignature">>,
                    AtEOF(c.reader), 0, c.clockCalls, Built(c))

\* verifyHandle.VerifyDetached.
VerifyDetached(vh, t, data, signature, encoding) ==
    LET c == VerifyingReader(vh, t, data, signature, encoding) IN
    IF c.err # NilErr
    THEN Outcome("nil", Wrap(c.err, "gopenpgp: verifying signature failed"),
                 <<"VerifyingReader">>, FALSE, 0, c.clockCalls, Built(c))
    ELSE LET d == IoCopy(c.reader) IN
         IF d.err # NilErr
         THEN Outcome("nil",
                      Wrap(d.err,
                           "gopenpgp: reading data to verify signature failed"),
                      <<"VerifyingReader", "Read">>, FALSE, 0,
                      c.clockCalls, Built(c))
         ELSE LET v == VerifySignature(d.reader)
              IN Outcome(v.res, v.err,
                         <<"VerifyingReader", "Read", "VerifySignature">>,
                         AtEOF(d.reader), 0, c.clockCalls, Built(c))

\* verifyHandle.VerifyInline.
VerifyInline(vh, t, msg, encoding) ==
    LET c == VerifyingReader(vh, t, NilData, msg, encoding) IN
    IF c.err # NilErr
    THEN Outcome("nil", Wrap(c.err, "gopenpgp: verifying signature failed"),
                 <<"VerifyingReader">>, FALSE, 0, c.clockCalls, Built(c))
    ELSE LET d == IoCopy(c.reader) IN
         IF d.err # NilErr
         THEN Outcome("nil",
                      Wrap(d.err,
                           "gopenpgp: reading data to verify signature failed"),
                      <<"VerifyingReader", "Read">>, FALSE, 0,
                      c.clockCalls, Built(c))
         ELSE LET v == VerifySignature(d.reader) IN
              IF v.err # NilErr
              THEN Outcome("nil",
                           Wrap(v.err, "gopenpgp: verifying signature failed"),
                           <<"VerifyingReader", "Read", "VerifySignature">>,
                           AtEOF(d.reader), 0, c.clockCalls, Built(c))
              ELSE Outcome(v.res, NilErr,
                           <<"VerifyingReader", "Read", "VerifySignature">>,
                           AtEOF(d.reader), d.n, c.clockCalls, Built(c))

\* verifyHandle.verifyDetachedSignature.
VerifyDetachedSignature(vh, t, origText, signature) ==
    LET c == VhVerifyingDetachedReader(vh, t, origText, signature) IN
    IF c.err # NilErr
    THEN Outcome("nil", Wrap(c.err, "gopenpgp: verify signature failed"),
                 <<"verifyingDetachedReader">>, FALSE, 0, c.clockCalls, 1)
    ELSE LET d == IoCopy(c.reader) IN
         IF d.err # NilErr
         THEN Outcome("nil", Wrap(d.err, "gopenpgp: hashing failed"),
                      <<"verifyingDetachedReader", "Read">>, FALSE, 0,
                      c.clockCalls, 1)
         ELSE LET v == VerifySignature(d.reader)
              IN Outcome(v.res, v.err,
                         <<"verifyingDetachedReader", "Read", "VerifySignature">>,
                         AtEOF(d.reader), 0, c.clockCalls, 1)

\* A cleartext container as clearsign.Decode sees it: no block (blockNil), or
\* a block whose plaintext has plaintextLen bytes, whose canonical bytes are
\* read through `bytes`, and whose armored signature body reads with or
\* without an error (sigBodyErr).
Cleartext(blockNil, sigBodyErr, plaintextLen, bytes, signature) ==
    [blockNil |-> blockNil, sigBodyErr |-> sigBodyErr,
     plaintextLen |-> plaintextLen, bytes |-> bytes, signature |-> signature]

\* verifyHandle.verifyCleartext. Slicing block.Plaintext[:len-1] panics when
\* the plaintext is empty.
VerifyCleartext(vh, t, ct) ==
    IF ct.blockNil
    THEN Outcome("nil", <<"gopenpgp: not able to parse cleartext message">>,
                 <<"clearsign.Decode">>, FALSE, 0, 0, 0)
    ELSE IF ct.sigBodyErr
    THEN Outcome("nil",
                 Wrap(ArmorError, "gopenpgp: signature not parsable in cleartext"),
                 <<"clearsign.Decode", "ReadAll">>, FALSE, 0, 0, 0)
    ELSE LET r == VerifyDetachedSignature(vh, t, ct.bytes, ct.signature)
             events == <<"clearsign.Decode", "ReadAll">> \o r.events
         IN IF r.err # NilErr
            THEN Outcome("nil",
                         Wrap(r.err,
                              "gopenpgp: cleartext verify failed with non-signature error"),
                         events, r.verifyAtEOF, 0, r.clockCalls,
                         r.constructions)
            ELSE IF ct.plaintextLen - 1 < 0
            THEN [Outcome("nil", NilErr, events, r.verifyAtEOF, 0,
                          r.clockCalls, r.constructions)
                    EXCEPT !.panicked = TRUE]
            ELSE Outcome(r.res, NilErr, events, r.verifyAtEOF,
                         ct.plaintextLen - 1, r.clockCalls, r.constructions)

NoVerify == [called |-> FALSE, eofSeen |-> FALSE, res |-> "nil", err |-> NilErr]
NoCall == [op |-> "none", framingOK |-> FALSE,
           out |-> Outcome("nil", NilErr, <<>>, FALSE, 0, 0, 0)]

NoVrCall == [detached |-> FALSE, form |-> "none", encoding |-> "none",
             resolved |-> 0, err |-> NilErr, built |-> "none", clock |-> 0]

\* The framing fits the encoding asked for: armor for "Armor", packets for
\* "Bytes", either for "Auto".
FramingOK(form, encoding) ==
    /\ encoding = "Armor" => form = "armored"
    /\ encoding = "Bytes" => form = "binary"
    /\ encoding = "Auto" => form # "malformedArmor"

\* The wall clock behind vh.clock passes the signature's creation instant.
Tick ==
    /\ now = 0
    /\ now' = 1
    /\ UNCHANGED <<readerVars, decryptVars, sessionKeyVars, vrCall, vhKeyRing, vhContext,
                   vhDisableTimeCheck, clockCalls, constructions,
                   message, reader, builtAt, lastVerify, call>>

\* A caller asks the handle for a streaming reader, detached or inline.
VerifyingReaderCall ==
    /\ constructions < MaxConstructions
    /\ \E form \in Forms : \E encoding \in Encodings : \E detached \in BOOLEAN :
         LET data == IF detached THEN DataReader(message.len, message.end)
                     ELSE NilData
             c == VerifyingReader(Handle, now, data, Framed(message, form),
                                  encoding)
         IN /\ reader' = c.reader
            /\ clockCalls' = clockCalls + c.clockCalls
            /\ constructions' = constructions + Built(c)
    /\ builtAt' = now
    /\ lastVerify' = NoVerify
    /\ call' = NoCall
    /\ UNCHANGED <<readerVars, decryptVars, sessionKeyVars, vrCall, vhKeyRing, vhContext,
                   vhDisableTimeCheck, now, message>>

\* The candidates of which the engine can resolve one at end-of-stream: any
\* of the reader's, 0 standing for none.
Resolvable(r) ==
    IF r.candidates = <<>> THEN {0} ELSE 1..Len(r.candidates)

\* A caller asks the handle for a streaming reader; the call's inputs, what
\* it returned and the candidate the engine will resolve are kept.
VerifyingReaderBuild ==
    /\ constructions < MaxConstructions
    /\ \E form \in Forms : \E encoding \in Encodings : \E detached \in BOOLEAN :
         LET data == IF detached THEN DataReader(message.len, message.end)
                     ELSE NilData
             c == VerifyingReader(Handle, now, data, Framed(message, form),
                                  encoding)
         IN /\ reader' = c.reader
            /\ clockCalls' = clockCalls + c.clockCalls
            /\ constructions' = constructions + Built(c)
            /\ \E resolved \in Resolvable(c.reader) :
                 vrCall' = [detached |-> detached, form |-> form,
                            encoding |-> encoding, resolved |-> resolved,
                            err |-> c.err, built |-> c.built,
                            clock |-> c.clockCalls]
    /\ builtAt' = now
    /\ lastVerify' = NoVerify
    /\ call' = NoCall
    /\ UNCHANGED <<readerVars, decryptVars, sessionKeyVars, vhKeyRing,
                   vhContext, vhDisableTimeCheck, now, message>>

\* The caller reads from the reader it holds.
ReaderRead ==
    /\ reader.open
    /\ \E bufLen \in 1..MaxBuf : \E out \in ReaderReadResults(reader, bufLen) :
         reader' = ReaderAfterRead(reader, out)
    /\ UNCHANGED <<readerVars, decryptVars, sessionKeyVars, vrCall, vhKeyRing, vhContext,
                   vhDisableTimeCheck, now, clockCalls, constructions,
                   message, builtAt, lastVerify, call>>

\* The caller finalizes the reader it holds, whether or not it was read to
\* its end.
ReaderVerifySignature ==
    /\ reader.open
    /\ LET v == VerifySignature(reader)
       IN lastVerify' = [called |-> TRUE, eofSeen |-> AtEOF(reader),
                         res |-> v.res, err |-> v.err]
    /\ UNCHANGED <<readerVars, decryptVars, sessionKeyVars, vrCall, vhKeyRing, vhContext,
                   vhDisableTimeCheck, now, clockCalls, constructions,
                   message, reader, builtAt, call>>

\* The effect of one finished call of a verification function on the handle.
Called(op, framingOK, out) ==
    /\ call' = [op |-> op, framingOK |-> framingOK, out |-> out]
    /\ clockCalls' = clockCalls + out.clockCalls
    /\ constructions' = constructions + out.constructions
    /\ reader' = NoReader
    /\ lastVerify' = NoVerify
    /\ UNCHANGED <<readerVars, decryptVars, sessionKeyVars, vrCall, vhKeyRing, vhContext,
                   vhDisableTimeCheck, now, message, builtAt>>

VerifyDetachedCall ==
    /\ constructions < MaxConstructions
    /\ \E form \in Forms : \E encoding \in Encodings :
         Called("VerifyDetached", FramingOK(form, encoding),
                VerifyDetached(Handle, now,
                               DataReader(message.len, message.end),
                               Framed(message, form), encoding))

VerifyInlineCall ==
    /\ constructions < MaxConstructions
    /\ \E form \in Forms : \E encoding \in Encodings :
         Called("VerifyInline", FramingOK(form, encoding),
                VerifyInline(Handle, now, Framed(message, form), encoding))

\* The container either does not parse (no block), or parses into a block
\* whose armored signature body reads with or without an error.
VerifyCleartextCall ==
    /\ constructions < MaxConstructions
    /\ \E blockNil \in BOOLEAN : \E sigBodyErr \in BOOLEAN :
         LET bytes == DataReader(IF message.len = 0 THEN 0 ELSE message.len - 1,
                                 message.end)
             ct == Cleartext(blockNil, sigBodyErr, message.len, bytes,
                             Framed(message, "binary"))
         IN Called("VerifyCleartext", ~blockNil /\ ~sigBodyErr,
                   VerifyCleartext(Handle, now, ct))

\* -------------------------------------------------------------- SessionKey

\* The engine's cipher codes (packet.CipherFunction) the registry names.
Cipher3DES == 2
CipherCAST5 == 3
CipherAES128 == 7
CipherAES192 == 8
CipherAES256 == 9

\* The registry: algorithm identifier to cipher code.
SymKeyAlgos ==
    [a \in {"3des", "tripledes", "cast5", "aes128", "aes192", "aes256"} |->
        CASE a = "3des" -> Cipher3DES
          [] a = "tripledes" -> Cipher3DES
          [] a = "cast5" -> CipherCAST5
          [] a = "aes128" -> CipherAES128
          [] a = "aes192" -> CipherAES192
          [] a = "aes256" -> CipherAES256]

\* cf.KeySize(), in bytes; 0 for a code the engine does not know.
KeySize(cf) ==
    CASE cf = Cipher3DES -> 24
      [] cf = CipherCAST5 -> 16
      [] cf = CipherAES128 -> 16
      [] cf = CipherAES192 -> 24
      [] cf = CipherAES256 -> 32
      [] OTHER -> 0

\* Identifiers a caller may pass: the registered ones, the empty one and an
\* unregistered one.
AlgoNames == DOMAIN SymKeyAlgos \cup {"", "aes512"}
CipherCodes == 0..MaxCipher
\* A key of n bytes, each of value fill.
KeyBytes(n, fill) == [i \in 1..n |-> fill]
\* The protocol versions of a key-exchange packet.
EkVersions == {3, 6}

\* A nil []byte where Encrypt returns its data.
NoPacket == [isNil |-> TRUE, body |-> <<>>, tagged |-> FALSE, tag |-> <<>>]

NoKey == [isNil |-> TRUE, V6 |-> FALSE, Key |-> <<>>, Algo |-> ""]
SessionKey(v6, key, a) == [isNil |-> FALSE, V6 |-> v6, Key |-> key, Algo |-> a]

\* NewSessionKeyFromToken(token, algo).
NewSessionKeyFromToken(token, a) == SessionKey(a = "", token, a)

CheckSizeIgnoresLength(k) ==
    IF k.V6
    THEN IF Len(k.Key) = 0 THEN <<"empty session key">> ELSE NilErr
    ELSE IF k.Algo \notin DOMAIN SymKeyAlgos
    THEN <<"unknown symmetric key algorithm">>
    ELSE IF KeySize(SymKeyAlgos[k.Algo]) > Len(k.Key)
    THEN <<"wrong session key size">>
    ELSE NilErr

\* (sk *SessionKey).checkSize(): the error returned.
CheckSize(k) ==
    IF k.V6
    THEN IF Len(k.Key) = 0 THEN <<"empty session key">> ELSE NilErr
    ELSE IF k.Algo \notin DOMAIN SymKeyAlgos
    THEN <<"unknown symmetric key algorithm">>
    ELSE IF KeySize(SymKeyAlgos[k.Algo]) # Len(k.Key)
    THEN <<"wrong session key size">>
    ELSE NilErr

\* for k, v := range symKeyAlgos { if v == cipher { algo = k; break } }: the
\* values algo can hold after the loop when it held `initial` before. A map
\* is ranged over in an unspecified order, so either alias of a code shared
\* by two identifiers can be found first.
RangeSymKeyAlgos(cipher, initial) ==
    LET found == {k \in DOMAIN SymKeyAlgos : SymKeyAlgos[k] = cipher}
    IN IF found = {} THEN {initial} ELSE found

UnsupportedCipher == <<"gopenpgp: unsupported cipher function">>

NewSessionKeyFromEncryptedAnyVersion(e, a) ==
    LET k == SessionKey(e.Version = 6, e.Key, a)
        err == CheckSize(k)
    IN IF err # NilErr
       THEN [sk |-> NoKey,
             err |-> Wrap(err, "gopenpgp: unable to decrypt session key")]
       ELSE [sk |-> k, err |-> NilErr]

\* newSessionKeyFromEncrypted(ek), a being the identifier the loop over the
\* registry ended with.
NewSessionKeyFromEncrypted(e, a) ==
    IF a = "" /\ e.Version < 6
    THEN [sk |-> NoKey, err |-> UnsupportedCipher]
    ELSE LET k == SessionKey(e.Version = 6, e.Key, a)
             err == CheckSize(k)
         IN IF err # NilErr
            THEN [sk |-> NoKey,
                  err |-> Wrap(err, "gopenpgp: unable to decrypt session key")]
            ELSE [sk |-> k, err |-> NilErr]

\* What the random source can answer a read with. config.Random() of a
\* config without Rand is crypto/rand.Reader, which does not return an error.
RandErrors == {NilErr}
\* The byte values a random key is filled with.
RandFills == {0, 1}

\* RandomToken(size) when the random source delivers bytes of value fill or
\* fails with randErr: the token, the error and the bytes drawn.
RandomToken(size, fill, randErr) ==
    IF randErr # NilErr
    THEN [token |-> <<>>,
          err |-> Wrap(randErr, "gopenpgp: error in generating random token"),
          drawn |-> 0]
    ELSE [token |-> KeyBytes(size, fill), err |-> NilErr, drawn |-> size]

GenerateSessionKeyAlgoFixedSize(a, fill, randErr) ==
    IF a \notin DOMAIN SymKeyAlgos
    THEN LET r == RandomToken(32, fill, randErr)
         IN [sk |-> NoKey,
             err |-> <<"gopenpgp: unknown symmetric key generation algorithm">>,
             drawn |-> r.drawn]
    ELSE LET r == RandomToken(32, fill, randErr)
         IN IF r.err # NilErr
            THEN [sk |-> NoKey, err |-> r.err, drawn |-> r.drawn]
            ELSE [sk |-> SessionKey(FALSE, r.token, a), err |-> NilErr,
                  drawn |-> r.drawn]

\* GenerateSessionKeyAlgo(algo).
GenerateSessionKeyAlgo(a, fill, randErr) ==
    IF a \notin DOMAIN SymKeyAlgos
    THEN [sk |-> NoKey,
          err |-> <<"gopenpgp: unknown symmetric key generation algorithm">>,
          drawn |-> 0]
    ELSE LET r == RandomToken(KeySize(SymKeyAlgos[a]), fill, randErr)
         IN IF r.err # NilErr
            THEN [sk |-> NoKey, err |-> r.err, drawn |-> r.drawn]
            ELSE [sk |-> SessionKey(FALSE, r.token, a), err |-> NilErr,
                  drawn |-> r.drawn]

GetAlgoEmptyOnUnknown(cipher, found) ==
    IF cipher = 0 \/ found \notin DOMAIN SymKeyAlgos
                  \/ SymKeyAlgos[found] # cipher
    THEN "" ELSE found

\* getAlgo(cipher), found being what the loop over the registry left in algo
\* (constants.AES256 before it).
GetAlgo(cipher, found) == IF cipher = 0 THEN "" ELSE found

\* The effect of one session-key call: the key and error it returned, the
\* random bytes it drew, and the identifier returned by getAlgo.
SessionKeyCalled(op, k, err, drawn, out) ==
    /\ skOp' = op
    /\ sk' = k
    /\ skErr' = err
    /\ randomBytes' = drawn
    /\ algoOut' = out
    /\ UNCHANGED <<readerVars, decryptVars, verifyVars, ek, algo, plain,
                   variant, dataPacket>>

\* checkSize on a key with the packet's key bytes and the caller's algorithm.
CheckSizeCall ==
    \E v6 \in BOOLEAN :
        LET k == SessionKey(v6, ek.Key, algo)
        IN SessionKeyCalled("checkSize", k, CheckSize(k), 0, "none")

NewSessionKeyFromEncryptedCall ==
    \E a \in RangeSymKeyAlgos(ek.CipherFunc, "") :
        LET out == NewSessionKeyFromEncrypted(ek, a)
        IN SessionKeyCalled("newSessionKeyFromEncrypted", out.sk, out.err, 0,
                            "none")

GenerateSessionKeyAlgoCall ==
    \E fill \in RandFills : \E randErr \in RandErrors :
        LET out == GenerateSessionKeyAlgo(algo, fill, randErr)
        IN SessionKeyCalled("GenerateSessionKeyAlgo", out.sk, out.err,
                            out.drawn, "none")

GetAlgoCall ==
    \E found \in RangeSymKeyAlgos(ek.CipherFunc, "aes256") :
        SessionKeyCalled("getAlgo", NoKey, NilErr, 0,
                         GetAlgo(ek.CipherFunc, found))

\* ------------------------------------------------- Encrypt and Decrypt

\* (sk *SessionKey).GetCipherFunc().
GetCipherFunc(k) ==
    IF k.V6 THEN [cf |-> 0, err |-> NilErr]
    ELSE IF k.Algo \notin DOMAIN SymKeyAlgos
    THEN [cf |-> 0, err |-> <<"gopenpgp: unsupported cipher function">>]
    ELSE [cf |-> SymKeyAlgos[k.Algo], err |-> NilErr]

\* The byte values of a plaintext, and the plaintexts a caller encrypts.
PlainBytes == {0, 255}
Plaintexts == UNION {[1..n -> PlainBytes] : n \in 0..MaxBody}
Variants == {"plain", "compressed", "signed"}

\* The symmetric cipher on a byte string: byte i is shifted by the key byte
\* it meets and by its position.
KeyByte(key, i) == key[((i - 1) % Len(key)) + 1]
EncryptBytes(bytes, key) ==
    [i \in 1..Len(bytes) |-> (bytes[i] + KeyByte(key, i) + i) % 256]
DecryptBytes(bytes, key) ==
    [i \in 1..Len(bytes) |-> (bytes[i] + 512 - KeyByte(key, i) - i) % 256]

\* The packets that are encrypted: an optional compression header (8), an
\* optional one-pass signature header (4), the literal header (11), the
\* data, and the signature packet (2) of a signed message.
Pack(data, signed, compress) ==
    (IF compress THEN <<8>> ELSE <<>>) \o (IF signed THEN <<4>> ELSE <<>>)
        \o <<11>> \o data \o (IF signed THEN <<2>> ELSE <<>>)

\* Parsing them back: whether they parse, the literal data, whether signed.
Unpack(packets) ==
    LET p1 == IF Len(packets) > 0 /\ packets[1] = 8 THEN Tail(packets)
              ELSE packets
        signed == Len(p1) > 0 /\ p1[1] = 4
        p2 == IF signed THEN Tail(p1) ELSE p1
        litOK == Len(p2) > 0 /\ p2[1] = 11
        p3 == IF litOK THEN Tail(p2) ELSE <<>>
        sigOK == ~signed \/ (Len(p3) > 0 /\ p3[Len(p3)] = 2)
        data == IF signed /\ sigOK THEN SubSeq(p3, 1, Len(p3) - 1) ELSE p3
    IN [ok |-> litOK /\ sigOK, data |-> data, signed |-> signed]

\* encryptStreamWithSessionKey: the error, and the writer pair as one value
\* (what was written, and which of the writers are closed).
EncryptStreamWithSessionKey(k, signed, compress) ==
    LET c == GetCipherFunc(k) IN
    IF c.err # NilErr \/ Len(k.Key) = 0
    THEN [err |-> Wrap(c.err, "gopenpgp: unable to encrypt with session key"),
          key |-> <<>>, signed |-> signed, compress |-> compress,
          written |-> <<>>, signClosed |-> FALSE, closed |-> FALSE]
    ELSE [err |-> NilErr, key |-> k.Key, signed |-> signed,
          compress |-> compress, written |-> <<>>, signClosed |-> FALSE,
          closed |-> FALSE]

WriterWrite(w, data) == [w EXCEPT !.written = @ \o data]
SignWriterClose(w) == [w EXCEPT !.signClosed = TRUE]
EncryptWriterClose(w) == [w EXCEPT !.closed = TRUE]

\* encBuf.Bytes(): the encrypted packets, and the integrity tag that the
\* encryption writer appends when it is closed (a hash of the packets).
EncBufBytes(w) ==
    LET packets == Pack(w.written, w.signed /\ w.signClosed, w.compress)
    IN [isNil |-> FALSE, body |-> EncryptBytes(packets, w.key),
        tagged |-> w.closed, tag |-> IF w.closed THEN packets ELSE <<>>]

EncryptWithSessionKeyNoClose(data, k, signed, compress) ==
    LET w == EncryptStreamWithSessionKey(k, signed, compress) IN
    IF w.err # NilErr THEN [data |-> NoPacket, err |-> w.err]
    ELSE IF signed
    THEN [data |-> EncBufBytes(SignWriterClose(WriterWrite(w, data))),
          err |-> NilErr]
    ELSE [data |-> EncBufBytes(WriterWrite(w, data)), err |-> NilErr]

\* encryptWithSessionKey(message, sk, signKeyRing, compress, nil); the
\* writers write to a bytes.Buffer and do not fail.
EncryptWithSessionKey(data, k, signed, compress) ==
    LET w == EncryptStreamWithSessionKey(k, signed, compress) IN
    IF w.err # NilErr THEN [data |-> NoPacket, err |-> w.err]
    ELSE IF signed
    THEN [data |-> EncBufBytes(EncryptWriterClose(
                       SignWriterClose(WriterWrite(w, data)))),
          err |-> NilErr]
    ELSE [data |-> EncBufBytes(EncryptWriterClose(WriterWrite(w, data))),
          err |-> NilErr]

\* decryptStreamWithSessionKey(sk, messageReader, ...): the error, or the
\* literal data the body reader delivers, what Close reports once it has,
\* and the embedded signature.
DecryptStreamWithSessionKey(k, packet) ==
    LET c == GetCipherFunc(k)
        packets == IF Len(k.Key) = 0 THEN <<>>
                   ELSE DecryptBytes(packet.body, k.Key)
        m == Unpack(packets)
    IN IF c.err # NilErr \/ ~m.ok
       THEN [err |-> DecryptStreamError, body |-> <<>>,
             closeResult |-> NilErr, sig |-> "unsigned"]
       ELSE [err |-> NilErr, body |-> m.data,
             closeResult |-> IF packet.tagged /\ packet.tag = packets
                             THEN NilErr ELSE MdcError,
             sig |-> IF m.signed THEN "good" ELSE "unsigned"]

\* sk.Encrypt, sk.EncryptWithCompression or sk.EncryptAndSign on the
\* caller's plaintext.
EncryptCall ==
    /\ consumer = "message"
    /\ pc = "idle"
    /\ dataPacket.isNil
    /\ skOp = "none"
    /\ LET out == EncryptWithSessionKey(plain, sk, variant = "signed",
                                        variant = "compressed")
       IN /\ dataPacket' = out.data
          /\ skErr' = out.err
    /\ skOp' = "Encrypt"
    /\ UNCHANGED <<readerVars, decryptVars, verifyVars, ek, algo, sk,
                   randomBytes, algoOut, plain, variant>>

\* sk.Decrypt(dataPacket) up to the start of messageBuf.ReadFrom: a nil key
\* ring and a verification time of 0.
DecryptCall ==
    /\ consumer = "message"
    /\ pc = "idle"
    /\ ~dataPacket.isNil
    /\ LET md == DecryptStreamWithSessionKey(sk, dataPacket)
       IN IF md.err # NilErr
          THEN /\ pc' = "done"
               /\ result' = Returned(NilMessage, md.err)
               /\ UNCHANGED <<stream, closeResult, sig>>
          ELSE /\ pc' = "reading"
               /\ stream' = md.body
               /\ closeResult' = md.closeResult
               /\ sig' = md.sig
               /\ UNCHANGED result
    /\ messageBuf' = <<>>
    /\ skOp' = "Decrypt"
    /\ UNCHANGED <<bodyPos, bodyEnd, bodyEnded, closeCount, reads, lastRead,
                   eofReturned, consumer, verifyKeyRing, verifyTime, sigSteps,
                   verifyVars, ek, algo, sk, skErr, randomBytes, algoOut,
                   plain, variant, dataPacket>>

\* --------------------------------------------------------- specification

InitReader ==
    /\ stream \in Streams
    /\ bodyPos = 0
    /\ bodyEnd \in {IoEOF} \cup InnerErrors
    /\ bodyEnded = FALSE
    /\ closeResult \in {NilErr, MdcError}
    /\ closeCount = 0
    /\ reads = 0
    /\ lastRead = NoRead
    /\ eofReturned = FALSE

InitDecrypt ==
    /\ consumer \in {"stream", "message"}
    /\ pc = "idle"
    /\ verifyKeyRing \in {"nil", "withSigner", "withoutSigner"}
    /\ verifyTime \in {0, 1}
    /\ sig \in {"unsigned", "good", "bad", "expired"}
    /\ consumer = "stream" =>
          verifyKeyRing = "nil" /\ verifyTime = 0 /\ sig = "unsigned"
    /\ messageBuf = <<>>
    /\ sigSteps = 0
    /\ result = NoResult

\* defaultVerifyHandle(clock) stores the clock and does not invoke it; the
\* builder sets the key ring (validate() refuses a nil one), the context and
\* the time-check toggle.
InitVerify ==
    /\ vhKeyRing \in {"withSigner", "withoutSigner"}
    /\ vhContext \in BOOLEAN
    /\ vhDisableTimeCheck \in BOOLEAN
    /\ now = 0
    /\ clockCalls = 0
    /\ constructions = 0
    /\ message \in Messages
    /\ reader = NoReader
    /\ builtAt = 0
    /\ lastVerify = NoVerify
    /\ call = NoCall
    /\ vrCall = NoVrCall

\* No verification handle in use.
IdleVerify ==
    /\ vhKeyRing = "withSigner"
    /\ vhContext = FALSE
    /\ vhDisableTimeCheck = FALSE
    /\ now = 0
    /\ clockCalls = 0
    /\ constructions = 0
    /\ message = CHOOSE m \in Messages : ~m.parses
    /\ reader = NoReader
    /\ builtAt = 0
    /\ lastVerify = NoVerify
    /\ call = NoCall
    /\ vrCall = NoVrCall

\* No decryption in progress.
IdleDecrypt ==
    /\ stream = <<>>
    /\ bodyPos = 0
    /\ bodyEnd = IoEOF
    /\ bodyEnded = FALSE
    /\ closeResult = NilErr
    /\ closeCount = 0
    /\ reads = 0
    /\ lastRead = NoRead
    /\ eofReturned = FALSE
    /\ consumer = "none"
    /\ pc = "idle"
    /\ verifyKeyRing = "nil"
    /\ verifyTime = 0
    /\ sig = "unsigned"
    /\ messageBuf = <<>>
    /\ sigSteps = 0
    /\ result = NoResult

\* No session-key call made.
IdleSessionKey ==
    /\ ek = [CipherFunc |-> 0, Version |-> 6, Key |-> <<>>]
    /\ algo = ""
    /\ sk = NoKey
    /\ skErr = NilErr
    /\ skOp = "none"
    /\ randomBytes = 0
    /\ algoOut = "none"
    /\ plain = <<>>
    /\ variant = "plain"
    /\ dataPacket = NoPacket

\* A key-exchange packet and an algorithm identifier, before any call.
InitSessionKey ==
    /\ ek \in [CipherFunc : CipherCodes, Version : EkVersions,
               Key : {KeyBytes(n, 0) : n \in 0..MaxKeyLen}]
    /\ algo \in AlgoNames
    /\ sk = NoKey
    /\ skErr = NilErr
    /\ skOp = "none"
    /\ randomBytes = 0
    /\ algoOut = "none"
    /\ plain = <<>>
    /\ variant = "plain"
    /\ dataPacket = NoPacket

\* Session-key decryption: a checkReader and its consumer.
Init == InitReader /\ InitDecrypt /\ IdleVerify /\ IdleSessionKey

Next == Read \/ DecryptStreamFails \/ DecryptStreamOpens \/ ReadFromStep

Spec == Init /\ [][Next]_vars

\* Streaming verification: one verifyHandle whose callers build readers,
\* read them and finalize them while the clock advances.
InitVerifySession == IdleDecrypt /\ InitVerify /\ IdleSessionKey

NextVerify ==
    \/ Tick
    \/ VerifyingReaderCall
    \/ ReaderRead
    \/ ReaderVerifySignature

SpecVerify == InitVerifySession /\ [][NextVerify]_vars

\* One-call verification: VerifyDetached, VerifyInline and VerifyCleartext
\* called on one verifyHandle.
NextVerifyCalls ==
    \/ Tick
    \/ VerifyDetachedCall
    \/ VerifyInlineCall
    \/ VerifyCleartextCall

SpecVerifyCalls == InitVerifySession /\ [][NextVerifyCalls]_vars

\* Reader construction: VerifyingReader called on one verifyHandle. What a
\* construction does depends on the framing, the candidates and the data
\* handed in, not on the key ring or on how good the signature is.
InitReaders ==
    /\ IdleDecrypt /\ InitVerify /\ IdleSessionKey
    /\ vhKeyRing = "withSigner"
    /\ ~vhDisableTimeCheck
    /\ message.kind = "good"

NextReaders == VerifyingReaderBuild

SpecReaders == InitReaders /\ [][NextReaders]_vars

\* Round trip: a valid session key encrypts a plaintext and decrypts the
\* result.
InitRoundTrip ==
    /\ stream = <<>>
    /\ bodyPos = 0
    /\ bodyEnd = IoEOF
    /\ bodyEnded = FALSE
    /\ closeResult = NilErr
    /\ closeCount = 0
    /\ reads = 0
    /\ lastRead = NoRead
    /\ eofReturned = FALSE
    /\ consumer = "message"
    /\ pc = "idle"
    /\ verifyKeyRing = "nil"
    /\ verifyTime = 0
    /\ sig = "unsigned"
    /\ messageBuf = <<>>
    /\ sigSteps = 0
    /\ result = NoResult
    /\ IdleVerify
    /\ ek = [CipherFunc |-> 0, Version |-> 6, Key |-> <<>>]
    /\ algo = ""
    /\ \E a \in DOMAIN SymKeyAlgos : \E fill \in RandFills :
          sk = NewSessionKeyFromToken(KeyBytes(KeySize(SymKeyAlgos[a]), fill), a)
    /\ skErr = NilErr
    /\ skOp = "none"
    /\ randomBytes = 0
    /\ algoOut = "none"
    /\ plain \in Plaintexts
    /\ variant \in Variants
    /\ dataPacket = NoPacket

NextRoundTrip == EncryptCall \/ DecryptCall \/ ReadFromStep

SpecRoundTrip == InitRoundTrip /\ [][NextRoundTrip]_vars

\* Session keys: size check, reconstruction, generation, reverse lookup.
InitSessionKeys == IdleDecrypt /\ IdleVerify /\ InitSessionKey

NextSessionKey ==
    \/ CheckSizeCall
    \/ NewSessionKeyFromEncryptedCall
    \/ GenerateSessionKeyAlgoCall
    \/ GetAlgoCall

SpecSessionKey == InitSessionKeys /\ [][NextSessionKey]_vars

\* ------------------------------------------------- claims on checkReader

\* The inner body reader has returned end-of-stream.
InnerEOFSeen == bodyEnded /\ bodyEnd = IoEOF

\* C1: a Read whose inner read returned end-of-stream calls Close in that
\* same Read; it returns Close's error, and not io.EOF, when Close fails and
\* io.EOF when Close succeeds; the inner byte count is returned unchanged.
C1_EofTriggersFinalization ==
    lastRead.innerErr = IoEOF =>
        /\ lastRead.closed
        /\ closeCount >= 1
        /\ closeResult # NilErr =>
              lastRead.err = closeResult /\ lastRead.err # IoEOF
        /\ closeResult = NilErr => lastRead.err = IoEOF
        /\ lastRead.n = lastRead.innerN

C1_Witness ==
    /\ lastRead.innerErr = IoEOF
    /\ lastRead.innerN > 0
    /\ closeResult = MdcError
    /\ lastRead.err = MdcError

\* C2: over any sequence of Read calls, also ones made after end-of-stream
\* or a finalization error was returned, Close is invoked at most once.
C2_FinalizedExactlyOnce ==
    /\ closeCount <= 1
    /\ InnerEOFSeen => closeCount = 1

\* C3: while the inner body reader has not returned end-of-stream, Close has
\* not been invoked and no Read has returned io.EOF; and a decryption returns
\* a plaintext only after the inner reader returned end-of-stream.
C3_NoFinalizeBeforeEOF ==
    /\ ~InnerEOFSeen => closeCount = 0 /\ ~eofReturned
    /\ result.returned /\ ~result.msg.isNil => InnerEOFSeen

C3_Witness ==
    /\ ~InnerEOFSeen
    /\ reads >= 2
    /\ lastRead.err = NilErr
    /\ bodyPos < Len(stream)

\* C4: a Read whose inner read returned an error other than end-of-stream
\* returns the structural parsing error in its place, does not call Close, and
\* returns neither io.EOF nor nil nor the finalization error.
C4_OtherErrorsReclassified ==
    lastRead.innerErr \in InnerErrors =>
        /\ lastRead.err = StructuralParsingError
        /\ lastRead.err # lastRead.innerErr
        /\ ~lastRead.closed
        /\ closeCount = 0
        /\ lastRead.err \notin {IoEOF, NilErr, MdcError}
        /\ lastRead.n = lastRead.innerN

C4_Witness ==
    /\ lastRead.innerErr \in InnerErrors
    /\ lastRead.innerN > 0
    /\ closeResult = MdcError
    /\ lastRead.err = StructuralParsingError

\* ------------------------------ claims on decryptWithSessionKeyAndContext

\* The body was read to its end and the integrity check passed.
ReadSucceeded == InnerEOFSeen /\ closeResult = NilErr

\* C5: with a verification key ring, a decryption whose read succeeded
\* returns a non-nil PlainMessage holding every decrypted byte whatever the
\* signature outcome; with the signer absent from the key ring the error is
\* the NoVerifier outcome.
C5_PlaintextKeptOnSignatureFailure ==
    result.returned /\ verifyKeyRing # "nil" /\ ReadSucceeded =>
        /\ ~result.msg.isNil
        /\ result.msg.Data = stream
        /\ verifyKeyRing = "withoutSigner" /\ sig # "unsigned" =>
              result.err = SignatureError("NoVerifier")

C5_Witness ==
    /\ result.returned
    /\ verifyKeyRing = "withoutSigner"
    /\ sig = "good"
    /\ ReadSucceeded
    /\ Len(stream) >= 2
    /\ result.msg.Data = stream
    /\ result.err = SignatureError("NoVerifier")

\* C6: a failed integrity check returns no plaintext and the finalization
\* error; a body ending in a read error returns no plaintext and the
\* structural parsing error; an invalid signature returns the plaintext and
\* a signature error. The three results differ pairwise.
C6_ThreeFailureKindsDistinct ==
    result.returned =>
        /\ InnerEOFSeen /\ closeResult # NilErr =>
              /\ result.msg.isNil
              /\ Cause(result.err) = closeResult
              /\ Cause(result.err) # StructuralParsingError
              /\ result.err[1] # "SignatureVerificationError"
        /\ bodyEnded /\ bodyEnd \in InnerErrors =>
              /\ result.msg.isNil
              /\ Cause(result.err) = StructuralParsingError
              /\ result.err[1] # "SignatureVerificationError"
        /\ ReadSucceeded /\ verifyKeyRing = "withSigner" /\ sig = "bad" =>
              /\ ~result.msg.isNil
              /\ result.msg.Data = stream
              /\ result.err = SignatureError("Failed")

C6_Witness ==
    /\ result.returned
    /\ InnerEOFSeen
    /\ closeResult = MdcError
    /\ Len(stream) >= 2
    /\ result.msg.isNil
    /\ Cause(result.err) = MdcError

\* -------------------------------------------- claims on VerifyDataReader

\* C7: a VerifySignature called before the reader reported end-of-stream
\* returns the incomplete outcome, and a Success outcome (or any determined
\* outcome) is returned only after end-of-stream was reported.
C7_NoSuccessBeforeEOF ==
    lastVerify.called =>
        /\ ~lastVerify.eofSeen => lastVerify.res = "Incomplete"
        /\ lastVerify.res = "Success" => lastVerify.eofSeen
        /\ lastVerify.res \in Outcomes => lastVerify.eofSeen

C7_Witness ==
    /\ lastVerify.called
    /\ ~lastVerify.eofSeen
    /\ lastVerify.res = "Incomplete"
    /\ reader.open
    /\ reader.path = "inline"
    /\ reader.left > 0
    /\ reader.kind = "bad"
    /\ reader.keyRing = "withSigner"

\* ------------------------------------ claims on the verification calls

\* The input of the last call could be framed, parsed and read to its end.
CallInputOK == call.framingOK /\ message.parses /\ message.end = IoEOF

Has(events, e) == \E i \in 1..Len(events) : events[i] = e

\* C8: VerifyDetached, VerifyInline and verifyDetachedSignature (reached
\* through VerifyCleartext) call VerifySignature only after the reader was
\* read to end-of-stream; when building the reader or reading it fails,
\* VerifySignature is not called and a wrapped error with a nil result is
\* returned.
C8_ReadBeforeVerify ==
    LET o == call.out
        n == Len(o.events)
        reached == call.op \in {"VerifyDetached", "VerifyInline"}
                   \/ (call.op = "VerifyCleartext" /\ call.framingOK)
    IN reached =>
        /\ Has(o.events, "VerifySignature") =>
              /\ o.events[n] = "VerifySignature"
              /\ o.events[n - 1] = "Read"
              /\ o.verifyAtEOF
        /\ CallInputOK => Has(o.events, "VerifySignature") /\ o.verifyAtEOF
        /\ ~CallInputOK =>
              /\ ~Has(o.events, "VerifySignature")
              /\ o.res = "nil"
              /\ Len(o.err) >= 2
              /\ ~o.panicked

C8_Witness ==
    /\ call.op = "VerifyDetached"
    /\ CallInputOK
    /\ message.len >= 1
    /\ call.out.events = <<"VerifyingReader", "Read", "VerifySignature">>
    /\ call.out.verifyAtEOF
    /\ call.out.res = "Failed"

\* C9: VerifyDetached, VerifyInline and VerifyCleartext return an error only
\* when the input cannot be framed, parsed or read; otherwise whatever the
\* signature turns out to be is returned as a VerifyResult with a nil error
\* and the call is not aborted.
C9_SignatureProblemsNeverAbort ==
    call.op # "none" =>
        /\ CallInputOK =>
              /\ ~call.out.panicked
              /\ call.out.err = NilErr
              /\ call.out.res \in Outcomes
        /\ call.out.err # NilErr => ~CallInputOK

\* ------------------------------------------------ claims on the clock

\* C10 as stated: once a reader was built from the handle, the clock has been
\* invoked exactly once, however many readers are built.
C10_ClockSampledOncePerSession ==
    constructions >= 1 => clockCalls = 1

\* C10 as amended: the clock is invoked exactly once in each call of
\* verifyingReader or verifyingDetachedReader and nowhere else (not at the
\* handle's construction, not in Read, not in VerifySignature), and a reader
\* keeps the instant sampled when it was built.
C10_ClockSampledOncePerReader ==
    /\ clockCalls = constructions
    /\ reader.open => reader.verifyTime = builtAt

C10_Witness ==
    /\ constructions = 2
    /\ clockCalls = 2
    /\ reader.open
    /\ reader.path = "detached"
    /\ reader.verifyTime = 0
    /\ now = 1
    /\ lastVerify.called
    /\ lastVerify.res = "NotYetValid"

\* ------------------------------------------------- claims on SessionKey

\* The key size, in bytes, each registered identifier stands for.
RegisteredKeySizes ==
    [a \in {"3des", "tripledes", "cast5", "aes128", "aes192", "aes256"} |->
        CASE a \in {"3des", "tripledes", "aes192"} -> 24
          [] a \in {"cast5", "aes128"} -> 16
          [] a = "aes256" -> 32]
RegisteredCodes == {2, 3, 7, 8, 9}

\* C14: checkSize succeeds, outside version-6 mode, exactly when Algo is a
\* registered identifier and the key has exactly that algorithm's key size,
\* and in version-6 mode exactly when the key is non-empty, whatever Algo is.
C14_CheckSizeExact ==
    skOp = "checkSize" =>
        ((skErr = NilErr) <=>
            IF sk.V6 THEN Len(sk.Key) > 0
            ELSE /\ sk.Algo \in DOMAIN RegisteredKeySizes
                 /\ Len(sk.Key) = RegisteredKeySizes[sk.Algo])

\* checkSize has rejected an AES-256 key that is one byte too long.
C14_Witness ==
    /\ skOp = "checkSize"
    /\ ~sk.V6
    /\ sk.Algo = "aes256"
    /\ Len(sk.Key) = 33
    /\ skErr = <<"wrong session key size">>

\* C15: newSessionKeyFromEncrypted returns the unsupported-algorithm error and
\* no key for an unregistered cipher code below version 6, accepts a version-6
\* packet with an absent or unknown code in implicit mode if its key is
\* non-empty, returns only keys that pass checkSize, and returns an error and
\* no key for a packet whose key fails checkSize.
C15_ReconstructionChecked ==
    skOp = "newSessionKeyFromEncrypted" =>
        LET known == ek.CipherFunc \in RegisteredCodes IN
        /\ (~known /\ ek.Version < 6) =>
               skErr = UnsupportedCipher /\ sk.isNil
        /\ (~known /\ ek.Version = 6 /\ Len(ek.Key) > 0) =>
               /\ skErr = NilErr /\ ~sk.isNil
               /\ sk.V6 /\ sk.Algo = "" /\ sk.Key = ek.Key
        /\ ~sk.isNil => skErr = NilErr /\ CheckSize(sk) = NilErr
                          /\ sk.Key = ek.Key
        /\ sk.isNil <=> skErr # NilErr
        /\ (known \/ ek.Version = 6) =>
               (sk.isNil <=>
                  IF ek.Version = 6 THEN Len(ek.Key) = 0
                  ELSE \A a \in DOMAIN RegisteredKeySizes :
                          SymKeyAlgos[a] = ek.CipherFunc =>
                              RegisteredKeySizes[a] # Len(ek.Key))

\* A version-6 packet without a cipher code was accepted in implicit mode.
C15_Witness ==
    /\ skOp = "newSessionKeyFromEncrypted"
    /\ ek.Version = 6
    /\ ek.CipherFunc = 0
    /\ ~sk.isNil
    /\ sk.V6
    /\ Len(sk.Key) = 1

C17_ReverseLookup ==
    skOp = "getAlgo" =>
        IF ek.CipherFunc = 0 THEN algoOut = ""
        ELSE IF ek.CipherFunc \in RegisteredCodes
        THEN /\ algoOut \in DOMAIN SymKeyAlgos
             /\ SymKeyAlgos[algoOut] = ek.CipherFunc
        ELSE algoOut = "aes256"

\* getAlgo has answered an unregistered nonzero code with AES-256.
C17_Witness ==
    /\ skOp = "getAlgo"
    /\ ek.CipherFunc = 10
    /\ algoOut = "aes256"

\* ------------------------------------------- claims on reader construction

\* C11: on the detached path the reader handed out is the sanitizing one
\* exactly when the signature the engine resolves is of type text, for every
\* list of candidates; with a binary signature or none it is the raw one.
C11_SanitizedIffResolvedText ==
    (vrCall.built = "detached" /\ reader.open) =>
        (reader.sanitized <=>
            (vrCall.resolved > 0
             /\ reader.candidates[vrCall.resolved] = "text"))

\* The armor step of the last VerifyingReader call failed.
ArmorFailed ==
    /\ vrCall.form # "armored"
    /\ vrCall.encoding = "Armor"
         \/ (vrCall.encoding = "Auto" /\ vrCall.form # "binary")

\* C12: VerifyingReader decodes the armor before anything else and returns an
\* error without building a reader when that fails; otherwise it builds
\* exactly the detached reader over detachedData when that is non-nil, and
\* exactly the inline reader otherwise, never both.
C12_ArmorThenOnePath ==
    vrCall.form # "none" =>
        /\ ArmorFailed =>
              /\ vrCall.err = Wrap(ArmorError, "gopenpgp: unarmor failed")
              /\ ~reader.open
              /\ vrCall.built = "none"
              /\ vrCall.clock = 0
        /\ ~ArmorFailed =>
              /\ vrCall.built = IF vrCall.detached THEN "detached" ELSE "inline"
              /\ vrCall.clock = 1
              /\ reader.open <=> vrCall.err = NilErr
        /\ reader.open =>
              /\ reader.path = vrCall.built
              /\ reader.candidates = message.candidates
              /\ reader.kind = message.kind
              /\ reader.left = message.len
              /\ reader.end = message.end

\* A detached reader was built from an armored signature.
C12_Witness ==
    /\ vrCall.form = "armored"
    /\ vrCall.detached
    /\ vrCall.built = "detached"
    /\ reader.open
    /\ reader.path = "detached"

\* --------------------------------------------------- claims on cleartext

\* C13: for a cleartext container that parses, VerifyCleartext returns the
\* parsed plaintext without its last byte, one trailing terminator and no
\* more; a container that does not parse returns an error and no result.
C13_OneTerminatorStripped ==
    call.op = "VerifyCleartext" =>
        /\ call.framingOK =>
              /\ ~call.out.panicked
              /\ call.out.err = NilErr =>
                    /\ call.out.res # "nil"
                    /\ call.out.dataLen = message.len - 1
        /\ ~call.framingOK => call.out.err # NilErr /\ call.out.res = "nil"

\* C20: verifyCleartext ends, for every input, with a result or an error; it
\* does not fail by slicing an empty plaintext to a negative length.
C20_VerifyCleartextTotal ==
    call.op = "VerifyCleartext" =>
        /\ ~call.out.panicked
        /\ call.out.res # "nil" \/ call.out.err # NilErr

\* ------------------------------------- claims on the signature policy

\* C19: decryptWithSessionKeyAndContext runs the embedded-signature policy
\* only after the body was read to end-of-stream without error and only with
\* a verification key ring: a failed read returns nil plaintext without a
\* signature step, and a nil key ring runs no signature step and returns a
\* nil error whenever decryption and the read succeeded.
C19_SignaturePolicyAfterRead ==
    /\ sigSteps <= 1
    /\ sigSteps > 0 => pc = "done" /\ ReadSucceeded /\ verifyKeyRing # "nil"
    /\ (pc = "done" /\ ~ReadSucceeded) =>
          sigSteps = 0 /\ result.msg.isNil /\ result.err # NilErr
    /\ (pc = "done" /\ verifyKeyRing = "nil") =>
          /\ sigSteps = 0
          /\ ReadSucceeded => result.err = NilErr /\ ~result.msg.isNil
    /\ (pc = "done" /\ ReadSucceeded /\ verifyKeyRing # "nil") => sigSteps = 1

\* A message with a bad signature was decrypted without a key ring: no
\* signature step, nil error, the plaintext returned.
C19_Witness ==
    /\ pc = "done"
    /\ verifyKeyRing = "nil"
    /\ sig = "bad"
    /\ ReadSucceeded
    /\ sigSteps = 0
    /\ result.err = NilErr
    /\ Len(result.msg.Data) > 0

\* --------------------------------------------------- claims on round trip

====
